---- MODULE Spec2Model ----
(***************************************************************************)
(* A model of the lazy list library `functional` (functional.go).          *)
(*                                                                         *)
(* Thunks and Pairs are heap objects.  A *Thunk is its id (ids are issued  *)
(* by nextId and never reused, so the id names the object); the nil        *)
(* pointer is 0.  A *Pair is its index in `pairs`; the nil pointer is 0.   *)
(* The closure a Thunk holds in its field f is recorded in `thunks`: its   *)
(* kind names the function literal that built it, the other fields are the *)
(* variables the literal captured.                                         *)
(***************************************************************************)
EXTENDS Integers, Sequences, FiniteSets, TLC

VARIABLES
    thunkId,    \* var thunkId uint64: the last id issued
    thunks,     \* the Thunk objects: thunks[id] is the closure of Thunk id
    pairs,      \* the Pair objects ever allocated
    memo,       \* var memo bool
    memoTable,  \* var memoTable map[uint64]*Pair
    fibo,       \* the package variable fibo of the Fibonacci example
    panic,      \* "" while the program runs, else the panic that ended it
    ran,        \* the Thunks whose closure ran during the last operation, in order
    calls,      \* calls of user-supplied functions during the last operation
    forces,     \* calls of force during the last operation
    held,       \* the client's variable: a Thunk pointer, nil (0) until it is set
    evicted,    \* the ids whose cache entry the last operation removed
    op,         \* the last operation the client performed
    ret,        \* what that operation returned
    iter        \* the goroutines of Iter with their channels and receivers

vars == <<thunkId, thunks, pairs, memo, memoTable, fibo, panic, ran, calls,
          forces, held, evicted, op, ret, iter>>

----------------------------------------------------------------------------
(* Bounds of the model. *)

MaxPairs == 3
MaxLen == 2
MaxVal == 2
MaxForces == 60
MaxTake == 5
MaxStack == 6

----------------------------------------------------------------------------
(* Values of type I. *)

IntV(n) == [k |-> "int", v |-> n]
ThunkV(t) == [k |-> "thunk", v |-> t]
NilV == [k |-> "nil", v |-> 0]

(* The closure of a Thunk: the function literal and its captured variables. *)
Clo(kind, head, n, ts, f) ==
    [kind |-> kind, head |-> head, n |-> n, ts |-> ts, f |-> f]

(* The program state as one record, threaded through the operations. *)
Cur ==
    [thunkId |-> thunkId, thunks |-> thunks, pairs |-> pairs, memo |-> memo,
     memoTable |-> memoTable, fibo |-> fibo, panic |-> panic, ran |-> ran,
     calls |-> calls, forces |-> forces]

Install(st) ==
    /\ thunkId' = st.thunkId
    /\ thunks' = st.thunks
    /\ pairs' = st.pairs
    /\ memo' = st.memo
    /\ memoTable' = st.memoTable
    /\ fibo' = st.fibo
    /\ panic' = st.panic
    /\ ran' = st.ran
    /\ calls' = st.calls
    /\ forces' = st.forces

(* Bind({e(x) : x \in {d}}) is e with x bound to the value of d. *)
Bind(S) == CHOOSE x \in S : TRUE

Res(st, v) == [st |-> st, v |-> v]
Panic(st, what) == Res([st EXCEPT !.panic = what], 0)
Ok(r) == r.st.panic = ""

(* A computation that calls force more than MaxForces times is outside the
   model: the step that would run it is not taken. *)
InModel(r) == r.st.panic # "fuel"

(* A nextId that returns thunkId as it is. *)
nextIdSame(st) == st

(* nextId and the allocation &Thunk{nextId(), f}. *)
nextId(st) == [st EXCEPT !.thunkId = @ + 1]

NewThunk(st, clo) ==
    LET s1 == nextId(st)
    IN  Res([s1 EXCEPT !.thunks = Append(@, clo)], s1.thunkId)

(* The allocation &Pair{head, tail}. *)
NewPair(st, head, tail) ==
    Res([st EXCEPT !.pairs = Append(@, [head |-> head, tail |-> tail])],
        Len(st.pairs) + 1)

EmptyClo == Clo("Empty", NilV, 0, <<>>, "")
Empty == 1

----------------------------------------------------------------------------
(* The user-supplied functions of the tests and of the README. *)

RECURSIVE SumInts(_)
SumInts(xs) == IF xs = <<>> THEN 0 ELSE Head(xs).v + SumInts(Tail(xs))

AllInts(xs) == \A i \in 1..Len(xs) : xs[i].k = "int"

(* The loop of totalSum (TestReduceN) with acc = acc*10 + x in the place of
   acc = acc + x: a function whose result tells the order of its arguments
   and of its calls. *)
RECURSIVE Digits(_, _)
Digits(acc, xs) ==
    IF xs = <<>> THEN acc ELSE Digits(acc * 10 + Head(xs).v, Tail(xs))

(* What a function f of MapN returns for the heads xs, all of them ints. *)
ApplyF(f, xs) ==
    CASE f = "sum" -> SumInts(xs)
      [] f = "digits" -> Digits(0, xs)

(* What a function f of ReduceN returns for acc and the heads xs. *)
ApplyAcc(f, acc, xs) ==
    CASE f = "totalSum" -> acc + SumInts(xs)
      [] f = "digits" -> Digits(acc, xs)

(* The predicates: even (TestFilter), growing (TestFilterN: every argument
   is compared with the first one, prev is never advanced), lt3
   (TestDropWhile).  x.(int) panics on a value that is not an int. *)
PredOk(f, xs) == AllInts(xs) /\ (f = "growing" \/ Len(xs) = 1)

PredHolds(f, xs) ==
    CASE f = "even" -> xs[1].v % 2 = 0
      [] f = "lt3" -> xs[1].v < 3
      [] f = "growing" -> \A i \in 2..Len(xs) : ~(xs[i].v < xs[1].v)

(* A call of a predicate: the call is counted, the result is its value. *)
CallPred(st, f, xs) ==
    LET s1 == [st EXCEPT !.calls = @ + 1]
    IN  IF PredOk(f, xs) THEN Res(s1, PredHolds(f, xs))
        ELSE Res([s1 EXCEPT !.panic = "type assertion"], FALSE)

----------------------------------------------------------------------------
(* The force engine and the closures of the constructors and combinators.  *)

RECURSIVE force(_, _, _), Eval(_, _, _), forceHeads(_, _, _, _, _)
RECURSIVE List(_, _), DropLoop(_, _), DropWhileLoop(_, _)
RECURSIVE ToSlice(_, _), ReduceN(_, _, _, _)
RECURSIVE Equals(_, _, _)

(* Link(head, tail): only allocates the Thunk. *)
Link(st, head, tail) == NewThunk(st, Clo("Link", head, 0, <<tail>>, ""))

(* DelayedLink(head, tail func() *Thunk): the closure tail is named by f,
   its captured int by n. *)
DelayedLink(st, head, f, n) == NewThunk(st, Clo("DelayedLink", head, n, <<>>, f))

(* List(items...): Link(items[0], List(items[1:]...)); the argument of Link
   is evaluated first, so the last item's Thunk is allocated first. *)
List(st, items) ==
    IF Len(items) >= 1
    THEN Bind({ Link(r.st, Head(items), r.v) : r \in {List(st, Tail(items))} })
    ELSE Res(st, Empty)

(* SliceToList builds the same list with a loop from the last item. *)
SliceToList(st, items) == List(st, items)

ThunkAppend(st, thunk, other) ==
    NewThunk(st, Clo("Append", NilV, 0, <<thunk, other>>, ""))

Take(st, thunk, n) == NewThunk(st, Clo("Take", NilV, n, <<thunk>>, ""))

Drop(st, thunk, n) == NewThunk(st, Clo("Drop", NilV, n, <<thunk>>, ""))

(* A MapN that forces its first list when it is called. *)
MapNEager(st, f, ts) ==
    Bind({ NewThunk(r.st, Clo("MapN", NilV, 0, ts, f))
           : r \in {force(st, ts[1], NilV)} })

MapN(st, f, ts) == NewThunk(st, Clo("MapN", NilV, 0, ts, f))

FilterN(st, f, ts) == NewThunk(st, Clo("FilterN", NilV, 0, ts, f))

Filter(st, thunk, f) == NewThunk(st, Clo("Filter", NilV, 0, <<thunk>>, f))

TakeWhile(st, thunk, f) == NewThunk(st, Clo("TakeWhile", NilV, 0, <<thunk>>, f))

DropWhile(st, thunk, f) == NewThunk(st, Clo("DropWhile", NilV, 0, <<thunk>>, f))

(* ZipN(thunks...) is MapN with the function that calls SliceToList. *)
ZipN(st, ts) == MapN(st, "zip", ts)

Flatten(st, thunk) == NewThunk(st, Clo("Flatten", NilV, 0, <<thunk>>, ""))

Reverse(st, thunk) == NewThunk(st, Clo("Reverse", NilV, 0, <<thunk>>, ""))

(* Updating(initial, f): the Thunk of the closure ret, which holds initial
   and f. *)
Updating(st, initial, f) == NewThunk(st, Clo("Updating", initial, 0, <<>>, f))

(* The cache lookup and the cache store of force. *)
memoHas(st, thunk) == thunk \in DOMAIN st.memoTable

(* A force that stores nothing. *)
memoStoreNothing(st, thunk, pair) == st

memoStore(st, thunk, pair) ==
    [st EXCEPT !.memoTable = (thunk :> pair) @@ @]

(* A force that reads the cache whatever the flag says. *)
forceCached(st, thunk, ctx) ==
    IF st.forces >= MaxForces THEN Panic(st, "fuel")
    ELSE IF thunk = 0 THEN Res([st EXCEPT !.forces = @ + 1], 0)
    ELSE IF memoHas(st, thunk)
    THEN Res([st EXCEPT !.forces = @ + 1], st.memoTable[thunk])
    ELSE IF st.memo
    THEN Bind({ IF Ok(r) THEN Res(memoStore(r.st, thunk, r.v), r.v) ELSE r
                : r \in {Eval([st EXCEPT !.forces = @ + 1], thunk, ctx)} })
    ELSE Eval([st EXCEPT !.forces = @ + 1], thunk, ctx)

(* force: the nil check, then the cache when memo is set, else the closure. *)
force(st, thunk, ctx) ==
    IF st.forces >= MaxForces THEN Panic(st, "fuel")
    ELSE IF thunk = 0 THEN Res([st EXCEPT !.forces = @ + 1], 0)
    ELSE IF st.memo
    THEN IF memoHas(st, thunk)
         THEN Res([st EXCEPT !.forces = @ + 1], st.memoTable[thunk])
         ELSE Bind({ IF Ok(r) THEN Res(memoStore(r.st, thunk, r.v), r.v) ELSE r
                     : r \in {Eval([st EXCEPT !.forces = @ + 1], thunk, ctx)} })
    ELSE Eval([st EXCEPT !.forces = @ + 1], thunk, ctx)

(* A Head that returns nil for the empty list. *)
ThunkHeadNil(st, thunk) ==
    Bind({ IF ~Ok(r) \/ r.v = 0 THEN Res(r.st, NilV)
           ELSE Res(r.st, r.st.pairs[r.v].head)
           : r \in {force(st, thunk, NilV)} })

(* Head() and Tail(): force(thunk, nil).head and .tail; reading a field of
   the nil Pair panics. *)
ThunkHead(st, thunk) ==
    Bind({ IF ~Ok(r) THEN Res(r.st, NilV)
           ELSE IF r.v = 0 THEN Res([r.st EXCEPT !.panic = "nil dereference"], NilV)
           ELSE Res(r.st, r.st.pairs[r.v].head)
           : r \in {force(st, thunk, NilV)} })

ThunkTail(st, thunk) ==
    Bind({ IF ~Ok(r) THEN Res(r.st, 0)
           ELSE IF r.v = 0 THEN Panic(r.st, "nil dereference")
           ELSE Res(r.st, r.st.pairs[r.v].tail)
           : r \in {force(st, thunk, NilV)} })

(* The function f of MapN: sum (TestFibo, README) adds its arguments, zip is
   the literal of ZipN. *)
CallF(st, f, heads) ==
    LET s1 == [st EXCEPT !.calls = @ + 1]
    IN  CASE f = "zip" ->
               Bind({ Res(r.st, ThunkV(r.v)) : r \in {SliceToList(s1, heads)} })
          [] OTHER ->
               IF AllInts(heads) THEN Res(s1, IntV(ApplyF(f, heads)))
               ELSE Res([s1 EXCEPT !.panic = "type assertion"], NilV)

(* The function literal of Max (f = "max") and of Min (f = "min"), on the
   reflect.Kind of acc and of x.  Different kinds give nil, and nil has the
   kind Invalid.  The signed ints and the unsigned ints up to Uint32 are
   compared.  A float is compared after acc := accV.Float(), a float64 that
   hides the parameter acc and is the value returned for it.  The case of
   String calls accV.Float(), which panics on a Value that is no float.
   Every other kind (Uint64, Slice, Ptr, Invalid) leaves the switch: nil. *)
MaxMinPanics(acc, x) == acc.k = x.k /\ acc.k = "string"

MaxMin(f, acc, x) ==
    LET keep == IF f = "max" THEN acc.v >= x.v ELSE acc.v <= x.v
    IN  IF acc.k # x.k THEN NilV
        ELSE CASE acc.k \in {"int", "uint32"} -> IF keep THEN acc ELSE x
               [] acc.k \in {"float32", "float64"} ->
                      IF keep THEN [k |-> "float64", v |-> acc.v] ELSE x
               [] OTHER -> NilV

(* The function f of ReduceN: totalSum of TestReduceN, and digits; the
   literal Reduce makes of the function of Max and of Min, f(acc, xs[0]),
   and of the function of Reverse (f = "link"), Link(x, acc) with acc
   asserted to be a Thunk pointer. *)
CallAcc(st, f, acc, heads) ==
    LET s1 == [st EXCEPT !.calls = @ + 1]
    IN  IF f \in {"max", "min"}
        THEN IF MaxMinPanics(acc, heads[1])
             THEN Res([s1 EXCEPT !.panic = "reflect: Float of string Value"], NilV)
             ELSE Res(s1, MaxMin(f, acc, heads[1]))
        ELSE IF f = "link"
        THEN IF acc.k = "thunk"
             THEN Bind({ Res(l.st, ThunkV(l.v)) : l \in {Link(s1, heads[1], acc.v)} })
             ELSE Res([s1 EXCEPT !.panic = "type assertion"], NilV)
        ELSE IF acc.k = "int" /\ AllInts(heads)
        THEN Res(s1, IntV(ApplyAcc(f, acc.v, heads)))
        ELSE Res([s1 EXCEPT !.panic = "type assertion"], NilV)

(* A tail closure that adds fibo to itself. *)
FiboTailSelf(st) == MapN(st, "sum", <<st.fibo, st.fibo>>)

(* The tail closure of TestFibo and of the README:
   MapN(sum, fibo, fibo.Tail()), reading the package variable fibo. *)
FiboTail(st) ==
    Bind({ IF Ok(r) THEN MapN(r.st, "sum", <<st.fibo, r.v>>) ELSE r
           : r \in {ThunkTail(st, st.fibo)} })

(* The closure tail of DelayedLink.  intsFrom is integersFromN of TestProg:
   it returns DelayedLink(n+1, ...).  fibo is the literal of TestFibo. *)
CallTail(st, c) ==
    LET s1 == [st EXCEPT !.calls = @ + 1]
    IN  CASE c.f = "intsFrom" ->
               DelayedLink(s1, IntV(c.n + 1), "intsFrom", c.n + 1)
          [] c.f = "fibo" -> FiboTail(s1)

(* A loop that fills heads from the last place to the first. *)
forceHeadsReversed(st, ts, k, heads, tails) ==
    IF k > Len(ts) THEN Res(st, [end |-> FALSE, heads |-> heads, tails |-> tails])
    ELSE Bind({ IF ~Ok(r) \/ r.v = 0
                THEN Res(r.st, [end |-> TRUE, heads |-> heads, tails |-> tails])
                ELSE forceHeads(r.st, ts, k + 1,
                                <<r.st.pairs[r.v].head>> \o heads,
                                Append(tails, r.st.pairs[r.v].tail))
                : r \in {force(st, ts[k], NilV)} })

(* A loop that finds an exhausted list when there is no list. *)
forceHeadsNoInput(st, ts, k, heads, tails) ==
    IF ts = <<>> THEN Res(st, [end |-> TRUE, heads |-> heads, tails |-> tails])
    ELSE IF k > Len(ts) THEN Res(st, [end |-> FALSE, heads |-> heads, tails |-> tails])
    ELSE Bind({ IF ~Ok(r) \/ r.v = 0
                THEN Res(r.st, [end |-> TRUE, heads |-> heads, tails |-> tails])
                ELSE forceHeads(r.st, ts, k + 1,
                                Append(heads, r.st.pairs[r.v].head),
                                Append(tails, r.st.pairs[r.v].tail))
                : r \in {force(st, ts[k], NilV)} })

(* The loop of MapN, ReduceN and FilterN: force thunks[k] for k = 0..l-1,
   stop at the first exhausted one. *)
forceHeads(st, ts, k, heads, tails) ==
    IF k > Len(ts) THEN Res(st, [end |-> FALSE, heads |-> heads, tails |-> tails])
    ELSE Bind({ IF ~Ok(r) \/ r.v = 0
                THEN Res(r.st, [end |-> TRUE, heads |-> heads, tails |-> tails])
                ELSE forceHeads(r.st, ts, k + 1,
                                Append(heads, r.st.pairs[r.v].head),
                                Append(tails, r.st.pairs[r.v].tail))
                : r \in {force(st, ts[k], NilV)} })

EvalLink(st, c) == NewPair(st, c.head, c.ts[1])

EvalDelayedLink(st, c) ==
    Bind({ IF Ok(r) THEN NewPair(r.st, c.head, r.v) ELSE r
           : r \in {CallTail(st, c)} })

(* The Pair a closure builds from a forced Pair p: the head of p and the
   Thunk a constructor returned. *)
PairWith(p, a) == NewPair(a.st, p.head, a.v)

EvalAppend(st, c) ==
    Bind({ IF ~Ok(r) THEN r
           ELSE IF r.v # 0
           THEN PairWith(r.st.pairs[r.v],
                         ThunkAppend(r.st, r.st.pairs[r.v].tail, c.ts[2]))
           ELSE Bind({ IF ~Ok(r2) THEN r2
                       ELSE IF r2.v # 0
                       THEN PairWith(r2.st.pairs[r2.v],
                                     ThunkAppend(r2.st, r2.st.pairs[r2.v].tail, Empty))
                       ELSE Res(r2.st, 0)
                       : r2 \in {force(r.st, c.ts[2], NilV)} })
           : r \in {force(st, c.ts[1], NilV)} })

(* A Take that never counts down. *)
EvalTakeKeep(st, c) ==
    IF c.n > 0
    THEN Bind({ IF ~Ok(r) THEN r
                ELSE IF r.v # 0
                THEN PairWith(r.st.pairs[r.v],
                              Take(r.st, r.st.pairs[r.v].tail, c.n))
                ELSE Res(r.st, 0)
                : r \in {force(st, c.ts[1], NilV)} })
    ELSE Res(st, 0)

EvalTake(st, c) ==
    IF c.n > 0
    THEN Bind({ IF ~Ok(r) THEN r
                ELSE IF r.v # 0
                THEN PairWith(r.st.pairs[r.v],
                              Take(r.st, r.st.pairs[r.v].tail, c.n - 1))
                ELSE Res(r.st, 0)
                : r \in {force(st, c.ts[1], NilV)} })
    ELSE Res(st, 0)

(* A Drop that moves its captured thunk on after the Pair it returns. *)
DropLoopSkip(st, id) ==
    Bind({ IF ~Ok(r) THEN r
           ELSE IF r.v # 0
           THEN IF st.thunks[id].n > 0
                THEN DropLoop([r.st EXCEPT !.thunks[id].n = @ - 1,
                                           !.thunks[id].ts = <<r.st.pairs[r.v].tail>>],
                              id)
                ELSE Res([r.st EXCEPT !.thunks[id].ts = <<r.st.pairs[r.v].tail>>],
                         r.v)
           ELSE Res(r.st, 0)
           : r \in {force(st, st.thunks[id].ts[1], NilV)} })

(* The closure of Drop calls itself, ret(nil), after changing the captured
   n and thunk: the changes stay in the closure. *)
DropLoop(st, id) ==
    Bind({ IF ~Ok(r) THEN r
           ELSE IF r.v # 0
           THEN IF st.thunks[id].n > 0
                THEN DropLoop([r.st EXCEPT !.thunks[id].n = @ - 1,
                                           !.thunks[id].ts = <<r.st.pairs[r.v].tail>>],
                              id)
                ELSE r
           ELSE Res(r.st, 0)
           : r \in {force(st, st.thunks[id].ts[1], NilV)} })

DropWhileLoop(st, id) ==
    Bind({ IF ~Ok(r) THEN r
           ELSE IF r.v # 0
           THEN Bind({ IF ~Ok(q) THEN Res(q.st, 0)
                       ELSE IF q.v
                       THEN DropWhileLoop(
                                [q.st EXCEPT !.thunks[id].ts = <<q.st.pairs[r.v].tail>>],
                                id)
                       ELSE Res(q.st, r.v)
                       : q \in {CallPred(r.st, st.thunks[id].f,
                                         <<r.st.pairs[r.v].head>>)} })
           ELSE r
           : r \in {force(st, st.thunks[id].ts[1], NilV)} })

EvalTakeWhile(st, c) ==
    Bind({ IF ~Ok(r) THEN r
           ELSE IF r.v # 0
           THEN Bind({ IF ~Ok(q) THEN Res(q.st, 0)
                       ELSE IF q.v
                       THEN PairWith(q.st.pairs[r.v],
                                     TakeWhile(q.st, q.st.pairs[r.v].tail, c.f))
                       ELSE Res(q.st, 0)
                       : q \in {CallPred(r.st, c.f, <<r.st.pairs[r.v].head>>)} })
           ELSE Res(r.st, 0)
           : r \in {force(st, c.ts[1], NilV)} })

EvalMapN(st, c) ==
    Bind({ IF ~Ok(r) THEN Res(r.st, 0)
           ELSE IF r.v.end THEN Res(r.st, 0)
           ELSE Bind({ IF ~Ok(h) THEN Res(h.st, 0)
                       ELSE Bind({ NewPair(t.st, h.v, t.v)
                                   : t \in {MapN(h.st, c.f, r.v.tails)} })
                       : h \in {CallF(r.st, c.f, r.v.heads)} })
           : r \in {forceHeads(st, c.ts, 1, <<>>, <<>>)} })

(* A FilterN that ends at the first tuple that fails f. *)
EvalFilterNStop(st, c) ==
    Bind({ IF ~Ok(r) THEN Res(r.st, 0)
           ELSE IF r.v.end THEN Res(r.st, 0)
           ELSE Bind({ Bind({ IF ~Ok(q) THEN Res(q.st, 0)
                              ELSE IF q.v
                              THEN Bind({ NewPair(l.st, ThunkV(l.v), tail.v)
                                          : l \in {List(q.st, r.v.heads)} })
                              ELSE Res(q.st, 0)
                              : q \in {CallPred(tail.st, c.f, r.v.heads)} })
                       : tail \in {FilterN(r.st, c.f, r.v.tails)} })
           : r \in {forceHeads(st, c.ts, 1, <<>>, <<>>)} })

EvalFilterN(st, c) ==
    Bind({ IF ~Ok(r) THEN Res(r.st, 0)
           ELSE IF r.v.end THEN Res(r.st, 0)
           ELSE Bind({ Bind({ IF ~Ok(q) THEN Res(q.st, 0)
                              ELSE IF q.v
                              THEN Bind({ NewPair(l.st, ThunkV(l.v), tail.v)
                                          : l \in {List(q.st, r.v.heads)} })
                              ELSE force(q.st, tail.v, NilV)
                              : q \in {CallPred(tail.st, c.f, r.v.heads)} })
                       : tail \in {FilterN(r.st, c.f, r.v.tails)} })
           : r \in {forceHeads(st, c.ts, 1, <<>>, <<>>)} })

EvalFilter(st, c) ==
    Bind({ IF ~Ok(r) THEN r
           ELSE IF r.v = 0 THEN Res(r.st, 0)
           ELSE Bind({ Bind({ IF ~Ok(q) THEN Res(q.st, 0)
                              ELSE IF q.v
                              THEN NewPair(q.st, r.st.pairs[r.v].head, tail.v)
                              ELSE force(q.st, tail.v, NilV)
                              : q \in {CallPred(tail.st, c.f,
                                                <<r.st.pairs[r.v].head>>)} })
                       : tail \in {Filter(r.st, r.st.pairs[r.v].tail, c.f)} })
           : r \in {force(st, c.ts[1], NilV)} })

(* The type assertion on pair.head panics on a head that is no Thunk
   pointer; pair2.head reads a field of pair2 whatever force returned. *)
EvalFlatten(st, c) ==
    Bind({ IF ~Ok(r) THEN r
           ELSE IF r.v # 0
           THEN IF r.st.pairs[r.v].head.k # "thunk"
                THEN Panic(r.st, "type assertion")
                ELSE Bind({ IF ~Ok(r2) THEN r2
                            ELSE IF r2.v = 0 THEN Panic(r2.st, "nil dereference")
                            ELSE Bind({ PairWith(r2.st.pairs[r2.v],
                                                 ThunkAppend(fl.st,
                                                             r2.st.pairs[r2.v].tail,
                                                             fl.v))
                                        : fl \in {Flatten(r2.st,
                                                          r.st.pairs[r.v].tail)} })
                            : r2 \in {force(r.st, r.st.pairs[r.v].head.v, NilV)} })
           ELSE Res(r.st, 0)
           : r \in {force(st, c.ts[1], NilV)} })

(* The function f of Updating: inc is x.(int) + 1 of TestUpdating. *)
CallUpd(st, f, ctx) ==
    LET s1 == [st EXCEPT !.calls = @ + 1]
    IN  IF ctx.k = "int" THEN Res(s1, IntV(ctx.v + 1))
        ELSE Res([s1 EXCEPT !.panic = "type assertion"], NilV)

(* The closure ret of Updating: the Pair of initial and a new Thunk of the
   closure t that holds initial. *)
EvalUpdating(st, c) ==
    Bind({ NewPair(t.st, c.head, t.v)
           : t \in {NewThunk(st, Clo("UpdatingT", c.head, 0, <<>>, c.f))} })

(* The closure t: force(&Thunk{nextId(), tail}, h), a new Thunk of the
   closure tail forced with the held item h as its ctx. *)
EvalUpdatingT(st, c) ==
    Bind({ force(t.st, t.v, c.head)
           : t \in {NewThunk(st, Clo("UpdatingTail", NilV, 0, <<>>, c.f))} })

(* The closure tail: h := f(ctx), then the Pair of h and a new Thunk of a
   closure t that holds h. *)
EvalUpdatingTail(st, c, ctx) ==
    Bind({ IF ~Ok(h) THEN Res(h.st, 0)
           ELSE Bind({ NewPair(t.st, h.v, t.v)
                       : t \in {NewThunk(h.st, Clo("UpdatingT", h.v, 0, <<>>, c.f))} })
           : h \in {CallUpd(st, c.f, ctx)} })

(* Reduce(f, initial) is ReduceN over the one list. *)
Reduce(st, thunk, f, initial) == ReduceN(st, f, initial, <<thunk>>)

(* The closure of Reverse: the list is reduced with Link from L(), which
   is Empty, and the Thunk that comes out is forced. *)
EvalReverse(st, c) ==
    Bind({ IF ~Ok(r) THEN Res(r.st, 0)
           ELSE IF r.v.k # "thunk" THEN Panic(r.st, "type assertion")
           ELSE force(r.st, r.v.v, NilV)
           : r \in {Reduce(st, c.ts[1], "link", ThunkV(Empty))} })

(* thunk.f(ctx): run the closure of the Thunk. *)
Eval(st, thunk, ctx) ==
    LET s1 == [st EXCEPT !.ran = Append(@, thunk)]
        c == st.thunks[thunk]
    IN  CASE c.kind = "Empty" -> Res(s1, 0)
          [] c.kind = "Link" -> EvalLink(s1, c)
          [] c.kind = "DelayedLink" -> EvalDelayedLink(s1, c)
          [] c.kind = "Append" -> EvalAppend(s1, c)
          [] c.kind = "Take" -> EvalTake(s1, c)
          [] c.kind = "Drop" -> DropLoop(s1, thunk)
          [] c.kind = "DropWhile" -> DropWhileLoop(s1, thunk)
          [] c.kind = "TakeWhile" -> EvalTakeWhile(s1, c)
          [] c.kind = "MapN" -> EvalMapN(s1, c)
          [] c.kind = "FilterN" -> EvalFilterN(s1, c)
          [] c.kind = "Filter" -> EvalFilter(s1, c)
          [] c.kind = "Flatten" -> EvalFlatten(s1, c)
          [] c.kind = "Reverse" -> EvalReverse(s1, c)
          [] c.kind = "Updating" -> EvalUpdating(s1, c)
          [] c.kind = "UpdatingT" -> EvalUpdatingT(s1, c)
          [] c.kind = "UpdatingTail" -> EvalUpdatingTail(s1, c, ctx)

(* ToSlice: the head, then the slice of the tail. *)
ToSlice(st, thunk) ==
    Bind({ IF ~Ok(r) \/ r.v = 0 THEN Res(r.st, <<>>)
           ELSE Bind({ Res(t.st, <<r.st.pairs[r.v].head>> \o t.v)
                       : t \in {ToSlice(r.st, r.st.pairs[r.v].tail)} })
           : r \in {force(st, thunk, NilV)} })

(* Equals: both lists are forced, then the heads are compared and the loop
   goes on with the tails.  Only the end of thunk is checked: when other
   has ended first, otherPair is nil and reading otherPair.head panics.
   Comparing two heads of a type that has no == (a slice) panics too. *)
Equals(st, thunk, other) ==
    Bind({ IF ~Ok(p) THEN Res(p.st, FALSE)
           ELSE Bind({ IF ~Ok(o) THEN Res(o.st, FALSE)
                       ELSE IF p.v = 0 THEN Res(o.st, o.v = 0)
                       ELSE IF o.v = 0
                       THEN Res([o.st EXCEPT !.panic = "nil dereference"], FALSE)
                       ELSE IF o.st.pairs[p.v].head.k = "thunk"
                       THEN IF o.st.pairs[o.v].head.k = "thunk"
                            THEN Bind({ IF ~Ok(e) \/ ~e.v THEN Res(e.st, FALSE)
                                        ELSE Equals(e.st, e.st.pairs[p.v].tail,
                                                    e.st.pairs[o.v].tail)
                                        : e \in {Equals(o.st,
                                                        o.st.pairs[p.v].head.v,
                                                        o.st.pairs[o.v].head.v)} })
                            ELSE Res(o.st, FALSE)
                       ELSE IF /\ o.st.pairs[p.v].head.k = "slice"
                               /\ o.st.pairs[o.v].head.k = "slice"
                       THEN Res([o.st EXCEPT !.panic = "uncomparable"], FALSE)
                       ELSE IF o.st.pairs[p.v].head # o.st.pairs[o.v].head
                       THEN Res(o.st, FALSE)
                       ELSE Equals(o.st, o.st.pairs[p.v].tail, o.st.pairs[o.v].tail)
                       : o \in {force(p.st, other, NilV)} })
           : p \in {force(st, thunk, NilV)} })

(* The loop of At: thunk is forced for i = 0..n; a nil Pair panics with
   "Index out of list.", else the head of the last Pair is returned. *)
RECURSIVE AtLoop(_, _, _, _, _)
AtLoop(st, thunk, i, n, pair) ==
    IF i > n
    THEN IF pair = 0 THEN Res([st EXCEPT !.panic = "nil dereference"], NilV)
         ELSE Res(st, st.pairs[pair].head)
    ELSE Bind({ IF ~Ok(r) THEN Res(r.st, NilV)
                ELSE IF r.v = 0
                THEN Res([r.st EXCEPT !.panic = "Index out of list."], NilV)
                ELSE AtLoop(r.st, r.st.pairs[r.v].tail, i + 1, n, r.v)
                : r \in {force(st, thunk, NilV)} })

(* An At that counts its places from 1. *)
AtFromOne(st, thunk, n) == AtLoop(st, thunk, 1, n, 0)

At(st, thunk, n) == AtLoop(st, thunk, 0, n, 0)

(* A ReduceN that folds from the right: the rest is reduced first. *)
ReduceNRight(st, f, acc, ts) ==
    IF ts = <<>> THEN Panic(st, "stack overflow")
    ELSE
    Bind({ IF ~Ok(r) \/ r.v.end THEN Res(r.st, acc)
           ELSE Bind({ IF ~Ok(a) THEN a ELSE CallAcc(a.st, f, a.v, r.v.heads)
                       : a \in {ReduceN(r.st, f, acc, r.v.tails)} })
           : r \in {forceHeads(st, ts, 1, <<>>, <<>>)} })

(* ReduceN: with no list at all the loop forces nothing, f(acc) is called
   and the function calls itself, for ever: every call of f is one more
   frame, and at MaxStack frames the goroutine's stack overflows. *)
ReduceN(st, f, acc, ts) ==
    IF ts = <<>> /\ st.calls >= MaxStack THEN Panic(st, "stack overflow")
    ELSE Bind({ IF ~Ok(r) \/ r.v.end THEN Res(r.st, acc)
                ELSE Bind({ IF ~Ok(a) THEN a
                            ELSE ReduceN(a.st, f, a.v, r.v.tails)
                            : a \in {CallAcc(r.st, f, acc, r.v.heads)} })
                : r \in {forceHeads(st, ts, 1, <<>>, <<>>)} })

(* Last(): pair := force(thunk.Reverse().Take(1), nil), then pair.head,
   which reads a field of the nil Pair when the list is empty. *)
Last(st, thunk) ==
    Bind({ Bind({ Bind({ IF ~Ok(r) THEN Res(r.st, NilV)
                         ELSE IF r.v = 0
                         THEN Res([r.st EXCEPT !.panic = "nil dereference"], NilV)
                         ELSE Res(r.st, r.st.pairs[r.v].head)
                         : r \in {force(t.st, t.v, NilV)} })
                  : t \in {Take(rv.st, rv.v, 1)} })
           : rv \in {Reverse(st, thunk)} })

(* Max() and Min(): thunk.Head() is the initial value, then the whole list
   is reduced, its first item included. *)
Max(st, thunk) ==
    Bind({ IF ~Ok(h) THEN h ELSE Reduce(h.st, thunk, "max", h.v)
           : h \in {ThunkHead(st, thunk)} })

Min(st, thunk) ==
    Bind({ IF ~Ok(h) THEN h ELSE Reduce(h.st, thunk, "min", h.v)
           : h \in {ThunkHead(st, thunk)} })

----------------------------------------------------------------------------
(* The client: a single goroutine that calls the package's functions, one
   operation per step, and keeps the Thunk pointers it is given. *)

Values == {IntV(n) : n \in 1..MaxVal}

(* The Thunks the client can name: its variable, when set, and Empty. *)
HeldSet == ({held} \ {0}) \cup {Empty}

(* The state an operation starts in: the per-operation counters are reset. *)
Begin == [Cur EXCEPT !.forces = 0, !.calls = 0, !.ran = <<>>]

OpRec(name, t, ts) == [name |-> name, t |-> t, ts |-> ts]

(* init() and the package-level initialisers: Empty takes the first id,
   memo = true, memoTable = make(map). *)
Init ==
    /\ thunkId = 1
    /\ thunks = <<EmptyClo>>
    /\ pairs = <<>>
    /\ memo = TRUE
    /\ memoTable = <<>>
    /\ fibo = 0
    /\ panic = ""
    /\ ran = <<>>
    /\ calls = 0
    /\ forces = 0
    /\ held = 0
    /\ evicted = {}
    /\ op = OpRec("init", 0, <<>>)
    /\ ret = 0
    /\ iter = <<>>

(* One operation of the client.  A panic ends the program: no operation
   follows it.  h: the client's variable after it. *)
Finish(name, t, ts, r, h) ==
    /\ panic = ""
    /\ Install(r.st)
    /\ op' = OpRec(name, t, ts)
    /\ ret' = r.v
    /\ held' = h
    /\ evicted' = DOMAIN memoTable \ DOMAIN r.st.memoTable
    /\ iter' = iter

(* An operation of the bounded client: it ends within MaxForces calls of
   force and the heap holds MaxPairs Pairs at most. *)
Done(name, t, ts, r, h) ==
    /\ InModel(r)
    /\ Len(r.st.pairs) <= MaxPairs
    /\ Finish(name, t, ts, r, h)

(* An argument of a combinator, built in the argument position as the tests
   do: 0 is integersFromN(1) of TestProg, n > 0 is List(1, ..., n), -1 is
   Empty.  The lists are the one-item list and the longest one. *)
Srcs == {-1, 0, 1, MaxLen}

Arg(st, a) ==
    IF a < 0 THEN Res(st, Empty)
    ELSE IF a = 0 THEN DelayedLink(st, IntV(1), "intsFrom", 1)
    ELSE List(st, [i \in 1..a |-> IntV(i)])

(* The client sets its variable once. *)
Unset == held = 0

(* x = integersFromN(1), the prog of TestProg. *)
DoDelayedLink ==
    \E r \in {DelayedLink(Begin, IntV(1), "intsFrom", 1)} :
        Unset /\ Done("DelayedLink", 0, <<>>, r, r.v)

(* x = List(1, ..., n). *)
DoList ==
    \E n \in 1..MaxLen :
        \E r \in {List(Begin, [i \in 1..n |-> IntV(i)])} :
            Unset /\ Done("List", 0, <<>>, r, r.v)

(* x = a.Drop(n). *)
DoDrop ==
    \E a \in Srcs, n \in 0..MaxLen :
        \E y \in {Arg(Begin, a)} :
            \E r \in {Drop(y.st, y.v, n)} :
                Unset /\ Done("Drop", y.v, <<>>, r, r.v)

(* x = MapN(sum, a, b), and x = MapN(sum, a, a) with the one list a. *)
DoMapN ==
    \E a \in Srcs, b \in Srcs \cup {-2} :
        \E y \in {Arg(Begin, a)} :
            \E z \in {IF b = -2 THEN y ELSE Arg(y.st, b)} :
                \E r \in {MapN(z.st, "sum", <<y.v, z.v>>)} :
                    Unset /\ Done("MapN", 0, <<y.v, z.v>>, r, r.v)

(* x = Link(h, a). *)
DoLink ==
    \E h \in Values, a \in Srcs :
        \E y \in {Arg(Begin, a)} :
            \E r \in {Link(y.st, h, y.v)} :
                Unset /\ Done("Link", y.v, <<>>, r, r.v)

(* x = a.Append(b). *)
DoAppend ==
    \E a \in Srcs, b \in Srcs :
        \E y \in {Arg(Begin, a)} :
            \E z \in {Arg(y.st, b)} :
                \E r \in {ThunkAppend(z.st, y.v, z.v)} :
                    Unset /\ Done("Append", y.v, <<z.v>>, r, r.v)

(* x = a.Take(n). *)
DoTake ==
    \E a \in Srcs, n \in 0..MaxLen :
        \E y \in {Arg(Begin, a)} :
            \E r \in {Take(y.st, y.v, n)} :
                Unset /\ Done("Take", y.v, <<>>, r, r.v)

(* x = ZipN(a, b). *)
DoZipN ==
    \E a \in Srcs, b \in Srcs :
        \E y \in {Arg(Begin, a)} :
            \E z \in {Arg(y.st, b)} :
                \E r \in {ZipN(z.st, <<y.v, z.v>>)} :
                    Unset /\ Done("ZipN", 0, <<y.v, z.v>>, r, r.v)

(* x = FilterN(growing, a, b). *)
DoFilterN ==
    \E a \in Srcs, b \in Srcs :
        \E y \in {Arg(Begin, a)} :
            \E z \in {Arg(y.st, b)} :
                \E r \in {FilterN(z.st, "growing", <<y.v, z.v>>)} :
                    Unset /\ Done("FilterN", 0, <<y.v, z.v>>, r, r.v)

(* x = a.Filter(even). *)
DoFilter ==
    \E a \in Srcs :
        \E y \in {Arg(Begin, a)} :
            \E r \in {Filter(y.st, y.v, "even")} :
                Unset /\ Done("Filter", y.v, <<>>, r, r.v)

(* x = a.TakeWhile(lt3). *)
DoTakeWhile ==
    \E a \in Srcs :
        \E y \in {Arg(Begin, a)} :
            \E r \in {TakeWhile(y.st, y.v, "lt3")} :
                Unset /\ Done("TakeWhile", y.v, <<>>, r, r.v)

(* x = a.DropWhile(lt3). *)
DoDropWhile ==
    \E a \in Srcs :
        \E y \in {Arg(Begin, a)} :
            \E r \in {DropWhile(y.st, y.v, "lt3")} :
                Unset /\ Done("DropWhile", y.v, <<>>, r, r.v)

(* x = L(a, b).Flatten(). *)
DoFlatten ==
    \E a \in Srcs, b \in Srcs :
        \E y \in {Arg(Begin, a)} :
            \E z \in {Arg(y.st, b)} :
                \E l \in {List(z.st, <<ThunkV(y.v), ThunkV(z.v)>>)} :
                    \E r \in {Flatten(l.st, l.v)} :
                        Unset /\ Done("Flatten", l.v, <<y.v, z.v>>, r, r.v)

(* x = Updating(1, inc), the prog of TestUpdating. *)
DoUpdating ==
    \E r \in {Updating(Begin, IntV(1), "inc")} :
        Unset /\ Done("Updating", 0, <<>>, r, r.v)

(* A use of a list: force(thunk, nil), the first thing Head, Tail, ToSlice,
   Length, At, Equals, Iter and String do with their receiver. *)
DoForce ==
    \E t \in HeldSet :
        \E r \in {force(Begin, t, NilV)} : Done("force", t, <<>>, r, held)

(* x = x.Tail(): the client moves on to the tail, as the loops of At,
   Length, Iter and String do. *)
DoTail ==
    \E r \in {ThunkTail(Begin, held)} :
        ~Unset /\ Done("Tail", held, <<>>, r, IF Ok(r) THEN r.v ELSE held)

StartMemo ==
    \E r \in {Res([Begin EXCEPT !.memo = TRUE], 0)} :
        Finish("StartMemo", 0, <<>>, r, held)

(* A StopMemo that empties the cache as well. *)
StopMemoClearing ==
    \E r \in {Res([Begin EXCEPT !.memo = FALSE, !.memoTable = <<>>], 0)} :
        Finish("StopMemo", 0, <<>>, r, held)

StopMemo ==
    \E r \in {Res([Begin EXCEPT !.memo = FALSE], 0)} :
        Finish("StopMemo", 0, <<>>, r, held)

(* A ResetMemo that enables memoization as well. *)
ResetMemoStarting ==
    \E r \in {Res([Begin EXCEPT !.memoTable = <<>>, !.memo = TRUE], 0)} :
        Finish("ResetMemo", 0, <<>>, r, held)

ResetMemo ==
    \E r \in {Res([Begin EXCEPT !.memoTable = <<>>], 0)} :
        Finish("ResetMemo", 0, <<>>, r, held)

Next ==
    \/ DoLink
    \/ DoDelayedLink
    \/ DoList
    \/ DoAppend
    \/ DoTake
    \/ DoDrop
    \/ DoMapN
    \/ DoZipN
    \/ DoFilterN
    \/ DoFilter
    \/ DoTakeWhile
    \/ DoDropWhile
    \/ DoFlatten
    \/ DoUpdating
    \/ DoForce
    \/ DoTail
    \/ StartMemo
    \/ StopMemo
    \/ ResetMemo

Spec == Init /\ [][Next]_vars

----------------------------------------------------------------------------
(* The programs of the tests: the arguments are built, the function is
   called once and its result is read with ToSlice. *)

(* The argument lists: the finite lists of ints, and prog, the infinite
   integersFromN(1) of TestProg. *)
FinLists == UNION {[1..n -> 1..MaxVal] : n \in 0..MaxLen}

Fin(s) == [inf |-> FALSE, items |-> s]

Prog == [inf |-> TRUE, items |-> <<>>]

FinIn == {Fin(s) : s \in FinLists}

AllIn == FinIn \cup {Prog}

(* One or two finite lists. *)
FinInputs == {<<a>> : a \in FinIn} \cup {<<a, b>> : a \in FinIn, b \in FinIn}

(* One to three lists, one of them finite at least; three lists as in
   TestMapN and TestReduceN, the last one prog. *)
Inputs ==
    FinInputs
    \cup {<<a, Prog>> : a \in FinIn} \cup {<<Prog, a>> : a \in FinIn}
    \cup {<<a, b, Prog>> : a \in FinIn, b \in FinIn}

(* No list, or one or two finite lists: the items of a list of lists. *)
SubLists == {<<>>} \cup FinInputs

BuildArg(st, x) ==
    IF x.inf THEN DelayedLink(st, IntV(1), "intsFrom", 1)
    ELSE List(st, [i \in 1..Len(x.items) |-> IntV(x.items[i])])

(* The arguments of a call are evaluated from left to right. *)
RECURSIVE BuildArgs(_, _)
BuildArgs(st, xs) ==
    IF xs = <<>> THEN Res(st, <<>>)
    ELSE Bind({ Bind({ Res(rest.st, <<a.v>> \o rest.v)
                       : rest \in {BuildArgs(a.st, Tail(xs))} })
                : a \in {BuildArg(st, Head(xs))} })

(* Nothing but Empty is allocated and nothing is cached yet. *)
Fresh == thunkId = 1 /\ DOMAIN memoTable = {}

(* fibo = Link(1, DelayedLink(1, func() *Thunk {...})) of TestFibo. *)
BuildFibo ==
    /\ Fresh
    /\ \E d \in {DelayedLink(Begin, IntV(1), "fibo", 0)} :
           \E l \in {Link(d.st, IntV(1), d.v)} :
               Finish("fibo", 0, <<>>, Res([l.st EXCEPT !.fibo = l.v], l.v), held)

(* fibo.Take(n).ToSlice(), the first use of fibo. *)
FiboTake ==
    /\ fibo # 0
    /\ pairs = <<>>
    /\ \E n \in 1..MaxTake :
           \E t \in {Take(Begin, fibo, n)} :
               \E r \in {ToSlice(t.st, t.v)} :
                   Finish("fibo.Take.ToSlice", n, <<>>, r, held)

(* MapN(f, lists...).ToSlice() *)
FnMapN ==
    /\ Fresh
    /\ \E xs \in Inputs, f \in {"sum", "digits"} :
           \E a \in {BuildArgs(Begin, xs)} :
               \E m \in {MapN(a.st, f, a.v)} :
                   \E r \in {ToSlice(m.st, m.v)} :
                       Finish("MapN.ToSlice", f, xs, r, held)

(* ZipN(lists...).ToSlice() *)
FnZipN ==
    /\ Fresh
    /\ \E xs \in Inputs :
           \E a \in {BuildArgs(Begin, xs)} :
               \E m \in {ZipN(a.st, a.v)} :
                   \E r \in {ToSlice(m.st, m.v)} :
                       Finish("ZipN.ToSlice", "zip", xs, r, held)

(* ReduceN(f, 0, lists...) *)
FnReduceN ==
    /\ Fresh
    /\ \E xs \in Inputs, f \in {"totalSum", "digits"} :
           \E a \in {BuildArgs(Begin, xs)} :
               \E r \in {ReduceN(a.st, f, IntV(0), a.v)} :
                   Finish("ReduceN", f, xs, r, held)

(* FilterN(growing, lists...).ToSlice(), and with even for one list. *)
FnFilterN ==
    /\ Fresh
    /\ \E xs \in FinInputs, f \in {"growing", "even"} :
           /\ f = "even" => Len(xs) = 1
           /\ \E a \in {BuildArgs(Begin, xs)} :
                  \E m \in {FilterN(a.st, f, a.v)} :
                      \E r \in {ToSlice(m.st, m.v)} :
                          Finish("FilterN.ToSlice", f, xs, r, held)

(* L(lists...).Flatten().ToSlice() *)
FnFlatten ==
    /\ Fresh
    /\ \E xs \in SubLists :
           \E a \in {BuildArgs(Begin, xs)} :
               \E l \in {List(a.st, [i \in 1..Len(xs) |-> ThunkV(a.v[i])])} :
                   \E m \in {Flatten(l.st, l.v)} :
                       \E r \in {ToSlice(m.st, m.v)} :
                           Finish("Flatten.ToSlice", "", xs, r, held)

(* StopMemo() and StartMemo() at the start of the program. *)
SetMemoOff == Fresh /\ StopMemo

SetMemoOn == Fresh /\ StartMemo

(* a.Equals(b) for two lists, and a.Equals(a). *)
FnEquals ==
    /\ Fresh
    /\ \E xs \in {<<a, b>> : a \in FinIn, b \in FinIn} \cup {<<a>> : a \in FinIn} :
           \E a \in {BuildArgs(Begin, xs)} :
               \E r \in {Equals(a.st, a.v[1], a.v[Len(xs)])} :
                   Finish("Equals", "", <<xs[1], xs[Len(xs)]>>, r, held)

(* l.Take(n).Append(l.Drop(n)).ToSlice(), then l.Take(n).ToSlice() and
   l.Drop(n).ToSlice(), for n from 0 to past the end of l. *)
FnTakeDrop ==
    /\ Fresh
    /\ \E x \in FinIn, n \in 0..(MaxLen + 1) :
           \E l \in {BuildArg(Begin, x)} :
           \E t \in {Take(l.st, l.v, n)} :
           \E d \in {Drop(t.st, l.v, n)} :
           \E a \in {ThunkAppend(d.st, t.v, d.v)} :
           \E whole \in {ToSlice(a.st, a.v)} :
           \E t2 \in {Take(whole.st, l.v, n)} :
           \E take \in {ToSlice(t2.st, t2.v)} :
           \E d2 \in {Drop(take.st, l.v, n)} :
           \E drop \in {ToSlice(d2.st, d2.v)} :
               Finish("Take.Append.Drop", n, <<x>>,
                      Res(drop.st, [whole |-> whole.v, take |-> take.v,
                                    drop |-> drop.v]),
                      held)

(* l.At(n) for n from 0 to past the end of l, and prog.At(n). *)
FnAt ==
    /\ Fresh
    /\ \E x \in AllIn, n \in 0..(MaxLen + 1) :
           \E l \in {BuildArg(Begin, x)} :
               \E r \in {At(l.st, l.v, n)} :
                   Finish("At", n, <<x>>, r, held)

(* The kinds of the items of the lists given to Max and Min: the int and
   the float64 of the tests, floats and unsigned ints of other widths,
   strings, and the slice of the tests. *)
Kinds == {"int", "uint32", "uint64", "float32", "float64", "string", "slice"}

KindItems == {[k |-> kd, v |-> n] : kd \in Kinds, n \in 1..MaxVal}

KindLists == UNION {[1..n -> KindItems] : n \in 0..MaxLen}

(* L(items...).Max() and L(items...).Min() *)
FnMax ==
    /\ Fresh
    /\ \E s \in KindLists :
           \E l \in {List(Begin, s)} :
               \E r \in {Max(l.st, l.v)} :
                   Finish("Max", "max", s, r, held)

FnMin ==
    /\ Fresh
    /\ \E s \in KindLists :
           \E l \in {List(Begin, s)} :
               \E r \in {Min(l.st, l.v)} :
                   Finish("Min", "min", s, r, held)

(* The items of pair.tail.Take(2), to compare the tails of two Pairs. *)
Rest(st, pair) ==
    IF ~(st.panic = "") \/ pair = 0 THEN Res(st, <<>>)
    ELSE Bind({ ToSlice(t.st, t.v) : t \in {Take(st, st.pairs[pair].tail, 2)} })

(* With memoization disabled: d := l.Drop(n), or d := l.DropWhile(f), for a
   list of ints or prog; then force(d, nil) three times, and the items that
   follow each of the three Pairs. *)
FnDropForce ==
    /\ Fresh
    /\ ~memo
    /\ \E x \in AllIn,
          w \in {[f |-> "Drop", n |-> n] : n \in 0..(MaxLen + 1)}
                \cup {[f |-> f, n |-> 0] : f \in {"lt3", "even"}} :
           \E l \in {BuildArg(Begin, x)} :
           \E d \in {IF w.f = "Drop" THEN Drop(l.st, l.v, w.n)
                                     ELSE DropWhile(l.st, l.v, w.f)} :
           \E r1 \in {force(d.st, d.v, NilV)} :
           \E r2 \in {force(r1.st, d.v, NilV)} :
           \E r3 \in {force(r2.st, d.v, NilV)} :
           \E s1 \in {Rest(r3.st, r1.v)} :
           \E s2 \in {Rest(s1.st, r2.v)} :
           \E s3 \in {Rest(s2.st, r3.v)} :
               Finish("Drop.force", w, <<x>>,
                      Res(s3.st,
                          [d |-> d.v,
                           pairs |-> <<r1.v, r2.v, r3.v>>,
                           heads |-> [i \in 1..3 |->
                                         IF <<r1.v, r2.v, r3.v>>[i] = 0 THEN NilV
                                         ELSE s3.st.pairs[<<r1.v, r2.v, r3.v>>[i]].head],
                           tails |-> [i \in 1..3 |->
                                         IF <<r1.v, r2.v, r3.v>>[i] = 0 THEN 0
                                         ELSE s3.st.pairs[<<r1.v, r2.v, r3.v>>[i]].tail],
                           rests |-> <<s1.v, s2.v, s3.v>>]),
                      held)

(* l.Head(), l.Tail() and l.Last() for a list of ints, the empty list
   included. *)
FnHead ==
    /\ Fresh
    /\ \E x \in FinIn :
           \E l \in {BuildArg(Begin, x)} :
               \E r \in {ThunkHead(l.st, l.v)} :
                   Finish("Head", l.v, <<x>>, r, held)

FnTail ==
    /\ Fresh
    /\ \E x \in FinIn :
           \E l \in {BuildArg(Begin, x)} :
               \E r \in {ThunkTail(l.st, l.v)} :
                   Finish("Tail", l.v, <<x>>, r, held)

FnLast ==
    /\ Fresh
    /\ \E x \in FinIn :
           \E l \in {BuildArg(Begin, x)} :
               \E r \in {Last(l.st, l.v)} :
                   Finish("Last", l.v, <<x>>, r, held)

(* ReduceN(f, acc) with no list. *)
FnReduceNNone ==
    /\ Fresh
    /\ \E f \in {"totalSum", "digits"}, acc \in 0..MaxVal :
           \E r \in {ReduceN(Begin, f, IntV(acc), <<>>)} :
               Finish("ReduceN.none", [f |-> f, n |-> acc], <<>>, r, held)

(* MapN(f).Take(n).ToSlice() and ZipN().Take(n).ToSlice() with no list. *)
FnMapNNone ==
    /\ Fresh
    /\ \E f \in {"sum", "digits", "zip"}, n \in 1..MaxTake :
           \E m \in {IF f = "zip" THEN ZipN(Begin, <<>>) ELSE MapN(Begin, f, <<>>)} :
               \E t \in {Take(m.st, m.v, n)} :
                   \E r \in {ToSlice(t.st, t.v)} :
                       Finish("MapN.none", [f |-> f, n |-> n], <<>>, r, held)

NextFn ==
    \/ BuildFibo
    \/ FiboTake
    \/ FnMapN
    \/ FnZipN
    \/ FnReduceN
    \/ FnFilterN
    \/ FnFlatten
    \/ FnEquals
    \/ FnTakeDrop
    \/ FnAt
    \/ FnMax
    \/ FnMin
    \/ FnDropForce
    \/ FnHead
    \/ FnTail
    \/ FnLast
    \/ FnReduceNNone
    \/ FnMapNNone
    \/ SetMemoOff
    \/ SetMemoOn

SpecFn == Init /\ [][NextFn]_vars

----------------------------------------------------------------------------
(* Iter: ch := make(chan I), a goroutine that forces the list cell by cell
   and sends each head on ch, and the for-range loop that receives from ch.
   iter[i] is the i-th call of Iter: the goroutine's place (pc) and its
   variables thunk and pair, what the receiver got, whether ch is closed
   and whether the loop of the receiver has ended.  The steps of force are
   the goroutine's own: the check of memo with the lookup in memoTable,
   the call of the closure, the store.  prs and miss record the Pair each
   force returned and whether it called the closure. *)

Goroutine(t) ==
    [pc |-> "lookup", thunk |-> t, store |-> FALSE, pair |-> 0, got |-> <<>>,
     prs |-> <<>>, miss |-> <<>>, closed |-> FALSE, cdone |-> FALSE]

(* pair := force(thunk, nil) has returned: if pair == nil { break }. *)
AfterForce(p, pair, missed) ==
    [p EXCEPT !.pair = pair,
              !.prs = Append(@, pair),
              !.miss = Append(@, missed),
              !.pc = IF pair = 0 THEN "close" ELSE "send"]

(* One step of the i-th goroutine or of its receiver. *)
Step(i, st, p) ==
    /\ panic = ""
    /\ Install(st)
    /\ iter' = [iter EXCEPT ![i] = p]
    /\ UNCHANGED <<held, evicted, op, ret>>

(* l.Iter() for a list of ints: one goroutine and one receiver. *)
IterOne ==
    /\ Fresh
    /\ iter = <<>>
    /\ panic = ""
    /\ \E x \in FinIn :
           \E l \in {BuildArg(Begin, x)} :
               /\ Install(l.st)
               /\ iter' = <<Goroutine(l.v)>>
               /\ op' = OpRec("Iter", 1, <<x>>)
               /\ held' = l.v
               /\ UNCHANGED <<evicted, ret>>

(* l.Iter() twice for the one list l = L(1, ..., n): two goroutines that
   force the same Thunks. *)
IterTwo ==
    /\ Fresh
    /\ iter = <<>>
    /\ panic = ""
    /\ \E n \in 0..MaxLen :
           \E l \in {BuildArg(Begin, Fin([k \in 1..n |-> k]))} :
               /\ Install(l.st)
               /\ iter' = <<Goroutine(l.v), Goroutine(l.v)>>
               /\ op' = OpRec("Iter", 2, <<Fin([k \in 1..n |-> k])>>)
               /\ held' = l.v
               /\ UNCHANGED <<evicted, ret>>

(* StopMemo() or StartMemo() before Iter is called. *)
IterSetMemo == iter = <<>> /\ (SetMemoOff \/ SetMemoOn)

(* force up to the call of the closure: the nil check, if memo, and the
   lookup memoTable[thunk.id]. *)
Lookup(i) ==
    /\ i \in DOMAIN iter
    /\ iter[i].pc = "lookup"
    /\ \E st \in {[Cur EXCEPT !.forces = @ + 1]} :
           IF iter[i].thunk = 0 THEN Step(i, st, AfterForce(iter[i], 0, FALSE))
           ELSE IF memo
           THEN IF memoHas(st, iter[i].thunk)
                THEN Step(i, st, AfterForce(iter[i], memoTable[iter[i].thunk], FALSE))
                ELSE Step(i, st, [iter[i] EXCEPT !.pc = "eval", !.store = TRUE])
           ELSE Step(i, st, [iter[i] EXCEPT !.pc = "eval", !.store = FALSE])

(* A call of the closure that looks in the cache once more. *)
CallClosureRecheck(i) ==
    /\ i \in DOMAIN iter
    /\ iter[i].pc = "eval"
    /\ IF iter[i].store /\ memoHas(Cur, iter[i].thunk)
       THEN Step(i, Cur, AfterForce(iter[i], memoTable[iter[i].thunk], TRUE))
       ELSE \E r \in {Eval(Cur, iter[i].thunk, NilV)} :
                IF iter[i].store
                THEN Step(i, r.st, [iter[i] EXCEPT !.pair = r.v, !.pc = "store"])
                ELSE Step(i, r.st, AfterForce(iter[i], r.v, TRUE))

(* ret := thunk.f(ctx), or return thunk.f(ctx) with memo unset. *)
CallClosure(i) ==
    /\ i \in DOMAIN iter
    /\ iter[i].pc = "eval"
    /\ \E r \in {Eval(Cur, iter[i].thunk, NilV)} :
           IF iter[i].store
           THEN Step(i, r.st, [iter[i] EXCEPT !.pair = r.v, !.pc = "store"])
           ELSE Step(i, r.st, AfterForce(iter[i], r.v, TRUE))

(* memoTable[thunk.id] = ret; return ret. *)
Store(i) ==
    /\ i \in DOMAIN iter
    /\ iter[i].pc = "store"
    /\ Step(i, memoStore(Cur, iter[i].thunk, iter[i].pair),
            AfterForce(iter[i], iter[i].pair, TRUE))

(* memoTable is a map with no lock.  A store while another goroutine is
   about to read or write the map is a data race: the stores may take place
   one after the other, or the runtime ends the program with a fatal error
   (concurrent map writes, concurrent map read and map write). *)
MapFatal(i) ==
    /\ i \in DOMAIN iter
    /\ iter[i].pc = "store"
    /\ \E j \in DOMAIN iter \ {i} :
           \/ iter[j].pc = "store"
           \/ iter[j].pc = "lookup" /\ memo /\ iter[j].thunk # 0
    /\ panic = ""
    /\ Install([Cur EXCEPT !.panic = "concurrent map access"])
    /\ UNCHANGED <<held, evicted, op, ret, iter>>

(* A send that puts the value before the ones the receiver has. *)
SendReordered(i) ==
    /\ i \in DOMAIN iter
    /\ iter[i].pc = "send"
    /\ ~iter[i].cdone
    /\ Step(i, Cur, [iter[i] EXCEPT !.got = <<pairs[iter[i].pair].head>> \o @,
                                    !.thunk = pairs[iter[i].pair].tail,
                                    !.pc = "lookup"])

(* ch <- pair.head with the receive of the for-range loop (ch has no
   buffer: the send and the receive are one step), then thunk = pair.tail. *)
Send(i) ==
    /\ i \in DOMAIN iter
    /\ iter[i].pc = "send"
    /\ ~iter[i].cdone
    /\ Step(i, Cur, [iter[i] EXCEPT !.got = Append(@, pairs[iter[i].pair].head),
                                    !.thunk = pairs[iter[i].pair].tail,
                                    !.pc = "lookup"])

(* close(ch): the goroutine ends. *)
Close(i) ==
    /\ i \in DOMAIN iter
    /\ iter[i].pc = "close"
    /\ Step(i, Cur, [iter[i] EXCEPT !.closed = TRUE, !.pc = "done"])

(* The receive from the closed ch ends the for-range loop. *)
RangeEnd(i) ==
    /\ i \in DOMAIN iter
    /\ iter[i].closed
    /\ ~iter[i].cdone
    /\ Step(i, Cur, [iter[i] EXCEPT !.cdone = TRUE])

Goroutines == 1..2

(* A step of a goroutine of Iter or of its receiver. *)
IterStep ==
    \E i \in Goroutines :
        Lookup(i) \/ CallClosure(i) \/ Store(i) \/ Send(i) \/ Close(i) \/ RangeEnd(i)

NextIter ==
    \/ IterSetMemo
    \/ IterOne
    \/ \E i \in Goroutines : Lookup(i)
    \/ \E i \in Goroutines : CallClosure(i)
    \/ \E i \in Goroutines : Store(i)
    \/ \E i \in Goroutines : Send(i)
    \/ \E i \in Goroutines : Close(i)
    \/ \E i \in Goroutines : RangeEnd(i)

(* The scheduler runs a goroutine that can take a step, and the receiver
   keeps receiving. *)
SpecIter == Init /\ [][NextIter]_vars /\ WF_vars(IterStep)

NextRace ==
    \/ IterSetMemo
    \/ IterTwo
    \/ \E i \in Goroutines : Lookup(i)
    \/ \E i \in Goroutines : CallClosure(i)
    \/ \E i \in Goroutines : Store(i)
    \/ \E i \in Goroutines : MapFatal(i)
    \/ \E i \in Goroutines : Send(i)
    \/ \E i \in Goroutines : Close(i)
    \/ \E i \in Goroutines : RangeEnd(i)

SpecRace == Init /\ [][NextRace]_vars

----------------------------------------------------------------------------
(* The properties of the memoization cache and of lazy construction. *)

Range(s) == {s[i] : i \in 1..Len(s)}

NoDuplicates(s) == \A i, j \in 1..Len(s) : s[i] = s[j] => i = j

Constructors ==
    {"Link", "DelayedLink", "List", "Append", "Take", "Drop", "MapN", "ZipN",
     "FilterN", "Filter", "TakeWhile", "DropWhile", "Flatten"}

Uses == {"force", "Tail"}

----------------------------------------------------------------------------
(* C1: while memoization stays enabled and the cache is not reset, no
   closure runs twice: an operation runs no closure of a Thunk that has a
   cache entry and runs no closure twice, every closure that ran has its
   result stored under the Thunk's id, entries and Pairs never change, and
   force returns the stored Pair. *)
C1_EvalAtMostOnce ==
    [][(memo /\ memo' /\ op'.name # "ResetMemo") =>
         /\ \A t \in DOMAIN memoTable :
                /\ t \notin Range(ran')
                /\ t \in DOMAIN memoTable'
                /\ memoTable'[t] = memoTable[t]
         /\ NoDuplicates(ran')
         /\ panic' = "" => \A t \in Range(ran') : t \in DOMAIN memoTable'
         /\ \A p \in 1..Len(pairs) : pairs'[p] = pairs[p]
         /\ (op'.name = "force" /\ panic' = "") => ret' = memoTable'[op'.t]]_vars

(* A later force of a cached Thunk: no closure ran, the stored Pair is
   returned. *)
C1_Witness ==
    /\ memo
    /\ op.name = "force"
    /\ ran = <<>>
    /\ forces = 1
    /\ ret # 0
    /\ ret = memoTable[op.t]

(* C2: while memoization is disabled every force runs the closure, also of a
   Thunk that has a cache entry, the Pair force returns is nil or one
   allocated by this very force, and the cache is as it was. *)
C2_DisabledForce ==
    [][(~memo /\ op'.name \in Uses) =>
         /\ memoTable' = memoTable
         /\ Len(ran') = forces'
         /\ forces' >= 1
         /\ ran'[1] = op'.t
         /\ op'.name = "force" => (ret' = 0 \/ ret' > Len(pairs))]_vars

(* A force, with memoization disabled, of a Thunk that has a cache entry. *)
C2_Witness ==
    /\ ~memo
    /\ op.name = "force"
    /\ op.t \in DOMAIN memoTable
    /\ ran # <<>>
    /\ ran[1] = op.t
    /\ ret # memoTable[op.t]

(* C3: StartMemo and StopMemo change the flag only; uses of lists while
   memoization is disabled leave the cache as it was; with memoization
   enabled a force of a Thunk that has an entry returns the entry and runs
   no closure. *)
C3_FlagOnly ==
    [][/\ op'.name \in {"StartMemo", "StopMemo"} =>
            /\ memo' = (op'.name = "StartMemo")
            /\ memoTable' = memoTable
            /\ <<thunkId', thunks', pairs', fibo', panic'>>
                 = <<thunkId, thunks, pairs, fibo, panic>>
       /\ (~memo /\ op'.name \in Uses) =>
            \A t \in DOMAIN memoTable :
                t \in DOMAIN memoTable' /\ memoTable'[t] = memoTable[t]
       /\ (memo /\ op'.name = "force" /\ op'.t \in DOMAIN memoTable) =>
            ret' = memoTable[op'.t] /\ ran' = <<>>]_vars

(* A force that returns an entry stored before memoization was disabled:
   the closure of the Link ran again while it was disabled (a later Pair
   with the same fields exists), and the older Pair is returned. *)
C3_Witness ==
    /\ memo
    /\ op.name = "force"
    /\ ran = <<>>
    /\ op.t \in DOMAIN memoTable
    /\ ret = memoTable[op.t]
    /\ ret # 0
    /\ thunks[op.t].kind = "Link"
    /\ \E p \in (ret + 1)..Len(pairs) : pairs[p] = pairs[ret]

(* C4: ResetMemo empties the cache and leaves the flag (and the heap) as it
   was; with memoization enabled the force, right after the reset, of a
   Thunk whose entry the reset removed runs its closure again and stores
   the new result. *)
C4_Reset ==
    [][/\ op'.name = "ResetMemo" =>
            /\ DOMAIN memoTable' = {}
            /\ memo' = memo
            /\ <<thunkId', thunks', pairs', fibo', panic'>>
                 = <<thunkId, thunks, pairs, fibo, panic>>
       /\ (memo /\ op'.name = "force" /\ op'.t \in evicted /\ panic' = "") =>
            /\ ran' # <<>>
            /\ ran'[1] = op'.t
            /\ op'.t \in DOMAIN memoTable'
            /\ memoTable'[op'.t] = ret'
            /\ (ret' = 0 \/ ret' > Len(pairs))]_vars

(* A reset, with memoization enabled, that removed the entry of the Thunk
   the client holds: its next force is the force the claim is about. *)
C4_Witness ==
    /\ memo
    /\ op.name = "ResetMemo"
    /\ held \in evicted
    /\ thunks[held].kind \in {"Link", "MapN"}
    /\ DOMAIN memoTable = {}

(* C5: a constructor forces nothing, calls no user function, runs no
   closure, allocates no Pair and leaves the cache as it was. *)
C5_LazyConstruction ==
    [][op'.name \in Constructors =>
         /\ forces' = 0
         /\ calls' = 0
         /\ ran' = <<>>
         /\ pairs' = pairs
         /\ memoTable' = memoTable
         /\ thunkId' > thunkId]_vars

(* The inputs of a MapN are forced when the MapN is: its closure ran, then
   the closures of both input lists, and f was called. *)
C5_Witness ==
    /\ memo
    /\ op.name = "force"
    /\ thunks[op.t].kind = "MapN"
    /\ Len(ran) >= 3
    /\ ran[1] = op.t
    /\ calls >= 1
    /\ ret # 0

----------------------------------------------------------------------------
(* The results of the combinators, stated on the argument lists. *)

(* The i-th item of an argument list; prog counts from 1. *)
ItemAt(x, i) == IF x.inf THEN i ELSE x.items[i]

(* The length of the shortest of the lists xs, one of them finite. *)
Shortest(xs) ==
    CHOOSE m \in 0..MaxLen :
        /\ \E k \in 1..Len(xs) : ~xs[k].inf /\ Len(xs[k].items) = m
        /\ \A k \in 1..Len(xs) : ~xs[k].inf => Len(xs[k].items) >= m

(* The i-th items of the lists xs, in the order of the lists. *)
TupleAt(xs, i) == [k \in 1..Len(xs) |-> IntV(ItemAt(xs[k], i))]

(* The items of a list built by List, L or SliceToList, read from the
   closures of its Links: nothing is forced. *)
RECURSIVE LinkItems(_)
LinkItems(t) ==
    IF t = Empty THEN <<>>
    ELSE IF thunks[t].kind # "Link" THEN <<NilV>>
    ELSE <<thunks[t].head>> \o LinkItems(thunks[t].ts[1])

(* The left fold of f over the tuples i, i+1, ... of the lists xs. *)
RECURSIVE FoldL(_, _, _, _)
FoldL(f, acc, xs, i) ==
    IF i > Shortest(xs) THEN acc
    ELSE FoldL(f, ApplyAcc(f, acc, TupleAt(xs, i)), xs, i + 1)

(* The tuples of the lists xs that pass f, in the order of their places. *)
Passing(f, xs) ==
    SelectSeq([i \in 1..Shortest(xs) |-> TupleAt(xs, i)],
              LAMBDA t : PredHolds(f, t))

(* The items of the lists xs, one list after the other. *)
RECURSIVE Concat(_)
Concat(xs) ==
    IF xs = <<>> THEN <<>>
    ELSE [i \in 1..Len(Head(xs).items) |-> IntV(Head(xs).items[i])]
         \o Concat(Tail(xs))

----------------------------------------------------------------------------
(* C6: building fibo = Link(1, DelayedLink(1, tail)) forces nothing, calls
   no function and caches nothing; fibo.Take(n).ToSlice() ends without a
   panic with n items, the first two are 1, each later item is the sum of
   the two before it, and the first five are 1, 1, 2, 3, 5. *)
C6_Fibo ==
    /\ op.name = "fibo" =>
          /\ panic = ""
          /\ fibo = ret
          /\ forces = 0
          /\ calls = 0
          /\ ran = <<>>
          /\ pairs = <<>>
          /\ DOMAIN memoTable = {}
    /\ op.name = "fibo.Take.ToSlice" =>
          /\ panic = ""
          /\ Len(ret) = op.t
          /\ \A i \in 1..Len(ret) : ret[i].k = "int"
          /\ \A i \in 1..Len(ret) : i <= 2 => ret[i].v = 1
          /\ \A i \in 1..(Len(ret) - 2) : ret[i + 2].v = ret[i].v + ret[i + 1].v
          /\ op.t = 5 => ret = <<IntV(1), IntV(1), IntV(2), IntV(3), IntV(5)>>

(* The first five items of fibo were read, with memoization enabled. *)
C6_Witness ==
    /\ op.name = "fibo.Take.ToSlice"
    /\ op.t = 5
    /\ memo
    /\ panic = ""
    /\ ret = <<IntV(1), IntV(1), IntV(2), IntV(3), IntV(5)>>
    /\ calls >= 4

(* C7: MapN(f, lists...) has as many items as the shortest list, the i-th
   is f of the i-th items of the lists in their order; ZipN(lists...) has as
   many, the i-th is the list of those items. *)
C7_MapNZipN ==
    /\ op.name = "MapN.ToSlice" =>
          /\ panic = ""
          /\ ret = [i \in 1..Shortest(op.ts) |->
                      IntV(ApplyF(op.t, TupleAt(op.ts, i)))]
    /\ op.name = "ZipN.ToSlice" =>
          /\ panic = ""
          /\ Len(ret) = Shortest(op.ts)
          /\ \A i \in 1..Len(ret) :
                 /\ ret[i].k = "thunk"
                 /\ LinkItems(ret[i].v) = TupleAt(op.ts, i)

(* MapN over a list of two items, a list of one item and prog: the result
   has the one item digits made of the three heads. *)
C7_Witness ==
    /\ op.name = "MapN.ToSlice"
    /\ op.t = "digits"
    /\ op.ts = <<Fin(<<2, 1>>), Fin(<<2>>), Prog>>
    /\ panic = ""
    /\ ret = <<IntV(221)>>

(* C8: ReduceN(f, initial, lists...) ends without a panic and returns the
   left fold of f, from initial, over the tuples of the i-th items up to
   the length of the shortest list, also when other lists are infinite. *)
C8_ReduceN ==
    op.name = "ReduceN" =>
        /\ panic = ""
        /\ ret = IntV(FoldL(op.t, 0, op.ts, 1))

(* ReduceN over two lists of two items and prog: both tuples are folded,
   the first one first; f was called twice and so was the tail closure of
   prog. *)
C8_Witness ==
    /\ op.name = "ReduceN"
    /\ op.t = "digits"
    /\ op.ts = <<Fin(<<1, 2>>), Fin(<<2, 1>>), Prog>>
    /\ panic = ""
    /\ calls = 4
    /\ ret = IntV(121212)

(* C9: FilterN(f, lists...) over finite lists yields, in the order of their
   places, the tuples below the length of the shortest list that pass f,
   each as a list, and nothing else. *)
C9_FilterN ==
    op.name = "FilterN.ToSlice" =>
        /\ panic = ""
        /\ Len(ret) = Len(Passing(op.t, op.ts))
        /\ \A i \in 1..Len(ret) :
               /\ ret[i].k = "thunk"
               /\ LinkItems(ret[i].v) = Passing(op.t, op.ts)[i]

(* FilterN(growing) over (2, 1) and (1, 2): the first tuple fails and is
   skipped, the second one is the only item. *)
C9_Witness ==
    /\ op.name = "FilterN.ToSlice"
    /\ op.t = "growing"
    /\ op.ts = <<Fin(<<2, 1>>), Fin(<<1, 2>>)>>
    /\ panic = ""
    /\ calls = 2
    /\ Len(ret) = 1
    /\ LinkItems(ret[1].v) = <<IntV(1), IntV(2)>>

(* C10: L(lists...).Flatten() over finite lists, empty ones too, can be read
   to its end without a panic and holds the items of the lists, one list
   after the other. *)
C10_FlattenConcat ==
    op.name = "Flatten.ToSlice" =>
        /\ panic = ""
        /\ ret = Concat(op.ts)

(* C11: a.Equals(b) over finite lists of ints ends without a panic and
   returns true exactly when both lists hold the same items at the same
   places; lists of different lengths are unequal, whichever is longer. *)
C11_Equals ==
    op.name = "Equals" =>
        /\ panic = ""
        /\ ret = (op.ts[1].items = op.ts[2].items)

(* The items of an input list as the values a slice holds. *)
Items(x) == [i \in 1..Len(x.items) |-> IntV(x.items[i])]

(* C12: for every finite list l and every n from 0 to past the length of l,
   l.Take(n).Append(l.Drop(n)) has the items of l in the order of l and
   nothing panics; l.Take(n) has the first n items and l.Drop(n) the rest,
   so Take(0) is empty and a Drop at or past the end is empty. *)
C12_TakeDrop ==
    op.name = "Take.Append.Drop" =>
        LET items == Items(op.ts[1])
            k == IF op.t < Len(items) THEN op.t ELSE Len(items)
        IN  /\ panic = ""
            /\ ret.whole = items
            /\ ret.take = SubSeq(items, 1, k)
            /\ ret.drop = SubSeq(items, k + 1, Len(items))
            /\ op.t = 0 => ret.take = <<>>
            /\ op.t >= Len(items) => ret.drop = <<>>

(* A list of two items is cut after the first: both parts have an item. *)
C12_Witness ==
    /\ op.name = "Take.Append.Drop"
    /\ op.t = 1
    /\ Len(op.ts[1].items) = 2
    /\ Len(ret.take) = 1
    /\ Len(ret.drop) = 1
    /\ Len(ret.whole) = 2
    /\ panic = ""

(* C13: l.At(n) returns the item at the 0-based place n when l has more than
   n items, and nothing panics; when l has n items or fewer, the empty list
   included, it panics with "Index out of list." and returns no value. *)
C13_At ==
    op.name = "At" =>
        IF op.ts[1].inf \/ op.t < Len(op.ts[1].items)
        THEN panic = "" /\ ret = IntV(ItemAt(op.ts[1], op.t + 1))
        ELSE panic = "Index out of list." /\ ret = NilV

(* At is called with the length of a list of two items: the two items were
   forced, the third force returned nil and the call panicked. *)
C13_Witness ==
    /\ op.name = "At"
    /\ ~op.ts[1].inf
    /\ Len(op.ts[1].items) = 2
    /\ op.t = 2
    /\ forces = 3
    /\ panic = "Index out of list."

(* The kinds the documentation of Max and Min calls ordered. *)
Ordered == {"int", "uint32", "uint64", "float32", "float64", "string"}

(* Two items of s are of different kinds, or an item is of a kind that has
   no order. *)
Mismatch(s) ==
    \/ \E i, j \in 1..Len(s) : s[i].k # s[j].k
    \/ \E i \in 1..Len(s) : s[i].k \notin Ordered

Greatest(s) == CHOOSE x \in Range(s) : \A y \in Range(s) : x.v >= y.v

Least(s) == CHOOSE x \in Range(s) : \A y \in Range(s) : x.v <= y.v

(* C14: for a list with items of different kinds, or with an item of a kind
   that has no order, Max and Min return nil and do not panic. *)
C14_MaxMinMismatch ==
    (op.name \in {"Max", "Min"} /\ Mismatch(op.ts)) =>
        panic = "" /\ ret = NilV

(* C15: for a non-empty list whose items are all of one ordered kind, Max
   returns the greatest item and Min the least item of the list. *)
C15_MaxMin ==
    (op.name \in {"Max", "Min"} /\ op.ts # <<>> /\ ~Mismatch(op.ts)) =>
        /\ panic = ""
        /\ op.name = "Max" => ret = Greatest(op.ts)
        /\ op.name = "Min" => ret = Least(op.ts)

(* C16: in every step of the client, thunks allocated while forcing
   included, every Thunk created takes an id greater than every id issued
   before it and the ids are never reused: the counter never goes back, the
   Thunks allocated are as many as the ids issued, an id issued before the
   step names the closure it named, the Thunk the client is given by a
   constructor has an id issued in that step, the cache holds entries for
   issued ids only, and Empty keeps the first id. *)
C16_UniqueIds ==
    [][ /\ thunkId' >= thunkId
        /\ Len(thunks') = thunkId'
        /\ \A i \in 1..thunkId :
               /\ i <= Len(thunks')
               /\ thunks'[i].kind = thunks[i].kind
               /\ thunks'[i].head = thunks[i].head
               /\ thunks'[i].f = thunks[i].f
        /\ (held = 0 /\ held' # 0) => (held' > thunkId /\ held' <= thunkId')
        /\ DOMAIN memoTable' \subseteq 1..thunkId'
        /\ thunks'[Empty] = EmptyClo ]_vars

(* The tail of Updating(1, inc) was forced with memoization enabled: the
   closure t allocated a Thunk for tail, and tail one for the next t; the
   three closures have three ids and the two forced ones a cache entry. *)
C16_Witness ==
    /\ op.name = "force"
    /\ memo
    /\ thunks[op.t].kind = "UpdatingT"
    /\ thunkId = op.t + 2
    /\ thunks[op.t + 1].kind = "UpdatingTail"
    /\ thunks[op.t + 2].kind = "UpdatingT"
    /\ ran = <<op.t, op.t + 1>>
    /\ {op.t, op.t + 1} \subseteq DOMAIN memoTable
    /\ memoTable[op.t] = memoTable[op.t + 1]

(* s is the start of t. *)
IsPrefix(s, t) == Len(s) <= Len(t) /\ s = SubSeq(t, 1, Len(s))

(* C17: the receiver of l.Iter() gets the items of l in the order of l:
   what it has got is always a start of l, and when its loop ends it has
   got all of l, the channel is closed and the goroutine has ended; and
   once Iter is called the goroutine does close the channel and end, with
   all of l received. *)
C17_Iter ==
    /\ [](\A i \in DOMAIN iter :
              /\ IsPrefix(iter[i].got, Items(op.ts[1]))
              /\ iter[i].closed => (iter[i].pc = "done" /\ iter[i].got = Items(op.ts[1]))
              /\ iter[i].cdone => iter[i].closed)
    /\ (iter # <<>>) ~> (\A i \in DOMAIN iter :
                            /\ iter[i].pc = "done"
                            /\ iter[i].cdone
                            /\ iter[i].got = Items(op.ts[1]))

(* The loop over a list of two different items has ended. *)
C17_Witness ==
    /\ op.name = "Iter"
    /\ op.t = 1
    /\ Len(op.ts[1].items) = 2
    /\ op.ts[1].items[1] # op.ts[1].items[2]
    /\ iter[1].cdone
    /\ iter[1].pc = "done"
    /\ iter[1].got = Items(op.ts[1])

(* C18: force takes three steps with no lock.  Two goroutines that force
   the same Thunks get Pairs with the same head and tail at every place.
   A force that found no entry called the closure and, for a cell of the
   list, got a Pair of its own: no other force was given that Pair unless
   it read it from the cache, so two forces of one Thunk that both missed
   got different Pairs.  A force that found an entry got the Pair another
   force had stored. *)
C18_Race ==
    \A i \in DOMAIN iter, j \in DOMAIN iter, k \in 1..MaxLen + 1 :
        (i # j /\ k <= Len(iter[i].prs) /\ k <= Len(iter[j].prs)) =>
            /\ (iter[i].prs[k] = 0) = (iter[j].prs[k] = 0)
            /\ iter[i].prs[k] # 0 =>
                   /\ pairs[iter[i].prs[k]].head = pairs[iter[j].prs[k]].head
                   /\ pairs[iter[i].prs[k]].tail = pairs[iter[j].prs[k]].tail
                   /\ (iter[i].miss[k] /\ iter[j].miss[k]) =>
                          iter[i].prs[k] # iter[j].prs[k]
                   /\ (memo /\ ~iter[i].miss[k]) =>
                          /\ iter[j].miss[k]
                          /\ iter[i].prs[k] = iter[j].prs[k]

(* With memoization enabled both goroutines missed the first Thunk, both
   ran its closure and each was given a Pair of its own; the program went
   on to the end of both loops. *)
C18_Witness ==
    /\ op.name = "Iter"
    /\ op.t = 2
    /\ memo
    /\ panic = ""
    /\ iter[1].cdone
    /\ iter[2].cdone
    /\ iter[1].miss[1]
    /\ iter[2].miss[1]
    /\ iter[1].prs[1] # iter[2].prs[1]
    /\ iter[1].prs[1] # 0
    /\ Len(SelectSeq(ran, LAMBDA t : t = held)) = 2

(* C19: with memoization disabled, every force of the Thunk of l.Drop(n)
   or of l.DropWhile(f) returns a Pair with the same head and with the same
   items after it, or nil every time; for Drop the head is the item at
   place n of l, and the result is nil when l has n items or fewer.  The
   tail is the same Thunk every time when the cells of l are Links (a list
   built by List). *)
C19_DropForce ==
    op.name = "Drop.force" =>
        /\ panic = ""
        /\ \A i \in 2..3 :
               /\ (ret.pairs[i] = 0) = (ret.pairs[1] = 0)
               /\ ret.heads[i] = ret.heads[1]
               /\ ret.rests[i] = ret.rests[1]
               /\ ~op.ts[1].inf => ret.tails[i] = ret.tails[1]
        /\ op.t.f = "Drop" =>
               IF op.ts[1].inf \/ op.t.n < Len(op.ts[1].items)
               THEN ret.heads[1] = IntV(ItemAt(op.ts[1], op.t.n + 1))
               ELSE ret.pairs[1] = 0

(* prog.Drop(1) was forced three times: the first force left 0 in the
   captured n, each force returned the head 2 and a tail Thunk of its own. *)
C19_Witness ==
    /\ op.name = "Drop.force"
    /\ op.ts[1].inf
    /\ op.t.f = "Drop"
    /\ op.t.n = 1
    /\ thunks[ret.d].n = 0
    /\ ret.heads = <<IntV(2), IntV(2), IntV(2)>>
    /\ ret.tails[1] # ret.tails[2]
    /\ ret.tails[2] # ret.tails[3]
    /\ ret.rests[1] = <<IntV(3), IntV(4)>>
    /\ panic = ""

(* The statement with the tail Thunk the same for every list: every force
   returns the same head and the same tail Thunk. *)
C19_SameTailThunk ==
    op.name = "Drop.force" =>
        \A i \in 2..3 :
            /\ ret.heads[i] = ret.heads[1]
            /\ ret.tails[i] = ret.tails[1]

(* C20: Head, Tail, Last, Max and Min of the empty list panic with a nil
   dereference and return nothing; on a list with an item Head, Tail and
   Last do not panic and return the first item, the Thunk of the rest and
   the last item. *)
C20_EmptyList ==
    /\ (op.name \in {"Max", "Min"} /\ op.ts = <<>>) =>
           panic = "nil dereference"
    /\ op.name \in {"Head", "Tail", "Last"} =>
           IF op.ts[1].items = <<>>
           THEN panic = "nil dereference"
           ELSE /\ panic = ""
                /\ op.name = "Head" => ret = IntV(op.ts[1].items[1])
                /\ op.name = "Tail" => ret = thunks[op.t].ts[1]
                /\ op.name = "Last" =>
                       ret = IntV(op.ts[1].items[Len(op.ts[1].items)])

(* Last of the empty list: the Thunk of Take(1) and the Thunk of Reverse
   ran, every force returned nil, and the call panicked. *)
C20_Witness ==
    /\ op.name = "Last"
    /\ op.ts[1].items = <<>>
    /\ Len(ran) >= 2
    /\ thunks[ran[1]].kind = "Take"
    /\ thunks[ran[2]].kind = "Reverse"
    /\ pairs = <<>>
    /\ panic = "nil dereference"

(* C21: with no list, ReduceN does not return: no force is made, f is
   called once per frame and the call ends only when the stack is full;
   MapN and ZipN give a list that does not end: Take(n) of it has n items
   for every n, each one f of no arguments (0 for the sums, the empty list
   for ZipN), and f was called once per item. *)
C21_NoLists ==
    /\ op.name = "ReduceN.none" =>
           /\ panic = "stack overflow"
           /\ calls = MaxStack
           /\ forces = 0
    /\ op.name = "MapN.none" =>
           /\ panic = ""
           /\ Len(ret) = op.t.n
           /\ calls = op.t.n
           /\ \A i \in 1..Len(ret) :
                  ret[i] = IF op.t.f = "zip" THEN ThunkV(Empty)
                           ELSE IntV(ApplyF(op.t.f, <<>>))

(* ReduceN with no list called f again and again with nothing forced, up
   to the overflow of the stack. *)
C21_Witness ==
    /\ op.name = "ReduceN.none"
    /\ calls >= 2
    /\ forces = 0
    /\ pairs = <<>>
    /\ panic = "stack overflow"

====
